---- MODULE Spec2Model ----
(***************************************************************************)
(* Model of pup-sdk: the environment-driven resolver PupClient.from_env    *)
(* (src/pup_sdk/client.py) and the FastAPI gateway with its demo/live      *)
(* fallback (src/pup_sdk/web/app.py).                                      *)
(*                                                                         *)
(* Strings are sequences of one-character strings, so that strip, lower,   *)
(* rstrip and startswith are computed as Python computes them.  An         *)
(* Optional[str] is <<>> (None) or <<s>> (the string s).                   *)
(***************************************************************************)
EXTENDS Integers, Sequences, FiniteSets, TLC

VARIABLES
    env,        \* os.environ of the gateway process (record of Optional strings)
    phase,      \* "created" (create_app done) | "running" (lifespan entered) |
                \* "bare" (serving with no lifespan) | "stopped"
    clients,    \* heap of PupClient objects, indexed by identity 1..Len(clients)
    stateClient,\* app.state.client: 0 (None) or a client identity
    pupClient,  \* module global _pup_client: 0 (None) or a client identity
    reqs,       \* in-flight request handlers, one per slot
    now,        \* datetime.now(), in seconds
    resp,       \* the response returned in the last step (NoResp if none was)
    degraded,   \* a chat's upstream call failed in a non-forced-live configuration
    renv,       \* resolver run: the environment from_env is called in
    rarg,       \* resolver run: the base_url argument
    rres,       \* resolver run: the client from_env returned
    rpc,        \* resolver run: "init" | "done" | "called" | "again"
    rfirst,     \* resolver run: the client the call before the last one returned
    rcc,        \* resolver run: what create_and_connect did in the same environment
    out,        \* resolver run: the request the resolved client sent (NoRequest if none)
    gs          \* a script's get_status calls on one client: the call in progress
                \* and what the calls before it did

gvars == <<env, phase, clients, stateClient, pupClient, reqs, now, resp, degraded>>
rvars == <<renv, rarg, rres, rpc, rfirst, rcc, out>>
cvars == <<gs>>
vars == <<env, phase, clients, stateClient, pupClient, reqs, now, resp, degraded,
          renv, rarg, rres, rpc, rfirst, rcc, out, gs>>

-----------------------------------------------------------------------------
(* Bounds of the model *)

MaxClients == 2     \* PupClient objects created in one process lifetime
MaxInflight == 2    \* request handlers suspended at an upstream call at once
MaxTicks == 7       \* clock advances

(* Program constants *)

CacheTTL == 30      \* get_status freshness window, seconds
ExecTimeMs == 100   \* _run_demo_chat execution_time (0.1 s), in milliseconds
NumDemoResponses == 4

(* Clock step of the model, seconds *)
TickStep == 10

-----------------------------------------------------------------------------
(* Python strings and Optional[str] *)

None == <<>>
Some(s) == <<s>>
IsNone(o) == o = <<>>

\* bool(x) for x an Optional[str]: None and "" are falsy
Truthy(o) == o # <<>> /\ Len(o[1]) > 0

\* Python `a or b` on Optional[str]
PyOr(a, b) == IF Truthy(a) THEN a ELSE b

Whitespace == {" ", "\t"}

RECURSIVE rstripSet(_, _)
rstripSet(s, chars) ==
    IF Len(s) > 0 /\ s[Len(s)] \in chars
    THEN rstripSet(SubSeq(s, 1, Len(s) - 1), chars)
    ELSE s

RECURSIVE lstripSet(_, _)
lstripSet(s, chars) ==
    IF Len(s) > 0 /\ s[1] \in chars
    THEN lstripSet(SubSeq(s, 2, Len(s)), chars)
    ELSE s

\* str.rstrip("/")
rstripSlash(s) == rstripSet(s, {"/"})

\* str.strip()
strip(s) == lstripSet(rstripSet(s, Whitespace), Whitespace)

LowerChar(c) ==
    CASE c = "A" -> "a" [] c = "E" -> "e" [] c = "I" -> "i" [] c = "N" -> "n"
      [] c = "O" -> "o" [] c = "P" -> "p" [] c = "R" -> "r" [] c = "S" -> "s"
      [] c = "T" -> "t" [] c = "U" -> "u" [] c = "Y" -> "y"
      [] OTHER -> c

\* str.lower()
lower(s) == [i \in 1..Len(s) |-> LowerChar(s[i])]

\* str.startswith(p)
startswith(s, p) == Len(s) >= Len(p) /\ SubSeq(s, 1, Len(p)) = p

\* str.startswith(tuple)
startswithAny(s, ps) == \E p \in ps : startswith(s, p)

-----------------------------------------------------------------------------
(* String literals *)

URL_DEFAULT ==
    <<"h","t","t","p",":","/","/","l","o","c","a","l","h","o","s","t",":","8","0","8","0">>
URL_LOCAL_IP == <<"h","t","t","p","s",":","/","/","1","2","7",".","0",".","0",".","1","/">>
URL_A == <<"h","t","t","p","s",":","/","/","a",".","i","o","/">>
URL_B == <<"h","t","t","p","s",":","/","/","b",".","i","o">>

URL_LOOKALIKE == <<"h","t","t","p",":","/","/","l","o","c","a","l","h","o","s","t",".","i","o">>

_LOCAL_PREFIXES ==
    { <<"h","t","t","p",":","/","/","l","o","c","a","l","h","o","s","t">>,
      <<"h","t","t","p",":","/","/","1","2","7",".","0",".","0",".","1">>,
      <<"h","t","t","p","s",":","/","/","l","o","c","a","l","h","o","s","t">>,
      <<"h","t","t","p","s",":","/","/","1","2","7",".","0",".","0",".","1">> }

_TRUE_VALUES == { <<"1">>, <<"t","r","u","e">>, <<"y","e","s">>, <<"o","n">> }

-----------------------------------------------------------------------------
(* PupClient.from_env *)

\* os.environ: every variable the resolver and the gateway read
EnvVars == {"ALBERTO_API_URL", "PUP_BACKEND_URL", "SYN_API_KEY", "OPEN_API_KEY",
            "PUP_PROVIDER", "PUP_ALLOW_KEYLESS_BACKEND"}

\* RemoteVar reading ALBERTO_API_URL only
RemoteVar_PrimaryOnly(e) == e.ALBERTO_API_URL

\* os.environ.get("ALBERTO_API_URL") or os.environ.get("PUP_BACKEND_URL")
RemoteVar(e) == PyOr(e.ALBERTO_API_URL, e.PUP_BACKEND_URL)

\* backend_url with the legacy variable read first
BackendUrl_LegacyFirst(e, base_url) ==
    PyOr(e.PUP_BACKEND_URL, PyOr(e.ALBERTO_API_URL, PyOr(base_url, Some(URL_DEFAULT))))[1]

\* backend_url = ALBERTO_API_URL or PUP_BACKEND_URL or base_url or default
BackendUrl(e, base_url) ==
    PyOr(e.ALBERTO_API_URL, PyOr(e.PUP_BACKEND_URL, PyOr(base_url, Some(URL_DEFAULT))))[1]

\* has_syn_key / has_openai_key: key and key.strip()
KeyUsable(k) == Truthy(k) /\ Len(strip(k[1])) > 0

\* provider_pref = (os.environ.get("PUP_PROVIDER") or "").lower()
ProviderPref(e) == lower(PyOr(e.PUP_PROVIDER, Some(<<>>))[1])

\* ChosenKey with the default order of create_and_connect (SYN_API_KEY first)
ChosenKey_SynFirst(e) ==
    LET pref == ProviderPref(e)
        has_syn == KeyUsable(e.SYN_API_KEY)
        has_openai == KeyUsable(e.OPEN_API_KEY)
    IN  IF pref = <<"s","y","n">> /\ has_syn THEN e.SYN_API_KEY
        ELSE IF pref = <<"o","p","e","n","a","i">> /\ has_openai THEN e.OPEN_API_KEY
        ELSE IF has_syn THEN e.SYN_API_KEY
        ELSE IF has_openai THEN e.OPEN_API_KEY
        ELSE None

ChosenKey(e) ==
    LET pref == ProviderPref(e)
        has_syn == KeyUsable(e.SYN_API_KEY)
        has_openai == KeyUsable(e.OPEN_API_KEY)
    IN  IF pref = <<"s","y","n">> /\ has_syn THEN e.SYN_API_KEY
        ELSE IF pref = <<"o","p","e","n","a","i">> /\ has_openai THEN e.OPEN_API_KEY
        ELSE IF has_openai THEN e.OPEN_API_KEY
        ELSE IF has_syn THEN e.SYN_API_KEY
        ELSE None

\* (os.environ.get("PUP_ALLOW_KEYLESS_BACKEND") or "").strip().lower() in {...}
KeylessFlag(e) ==
    lower(strip(PyOr(e.PUP_ALLOW_KEYLESS_BACKEND, Some(<<>>))[1])) \in _TRUE_VALUES

\* AllowKeylessBackend asking for a non-local URL and the flag
AllowKeylessBackend_And(e, backend_url) ==
    ~startswithAny(backend_url, _LOCAL_PREFIXES) /\ KeylessFlag(e)

AllowKeylessBackend(e, backend_url) ==
    ~startswithAny(backend_url, _LOCAL_PREFIXES) \/ KeylessFlag(e)

\* a constructor that opens the session, as create_and_connect does after it
NewClient_Connected(base_url, api_key, demo_mode) ==
    [ base_url |-> rstripSlash(base_url),
      api_key |-> api_key,
      demo_mode |-> demo_mode,
      session |-> TRUE,
      nsessions |-> 1,
      is_connected |-> TRUE,
      status_cache |-> None,
      cache_timestamp |-> None ]

\* PupClient.__init__: a client with no session, no cache.  session is
\* `_session is not None`; nsessions counts the aiohttp.ClientSession objects the
\* client created and did not close
NewClient(base_url, api_key, demo_mode) ==
    [ base_url |-> rstripSlash(base_url),
      api_key |-> api_key,
      demo_mode |-> demo_mode,
      session |-> FALSE,
      nsessions |-> 0,
      is_connected |-> FALSE,
      status_cache |-> None,
      cache_timestamp |-> None ]

from_env(e, base_url) ==
    LET backend_url == BackendUrl(e, base_url)
        chosen_key == ChosenKey(e)
    IN  IF Truthy(RemoteVar(e))
        THEN NewClient(backend_url, None, FALSE)
        ELSE IF Truthy(chosen_key)
        THEN NewClient(backend_url, chosen_key, FALSE)
        ELSE IF AllowKeylessBackend(e, backend_url)
        THEN NewClient(backend_url, None, FALSE)
        ELSE NewClient(backend_url, None, TRUE)

-----------------------------------------------------------------------------
(* Resolver runs: from_env applied to an environment drawn from RDomain *)

S_EMPTY == <<>>
S_BLANK == <<" ">>
S_SYNKEY == <<" ","s","k","1">>
S_OPENKEY == <<"s","k","2">>

RUrlVals == {None, Some(S_EMPTY), Some(URL_A), Some(URL_A \o <<"/">>), Some(URL_DEFAULT)}
RKeyVals(k) == {None, Some(S_EMPTY), Some(S_BLANK), Some(k)}
RProviderVals == {None, Some(<<"s","y","n">>), Some(<<"S","y","n">>),
                  Some(<<"O","P","E","N","A","I">>), Some(<<" ","s","y","n">>)}
RFlagVals == {None, Some(<<"1">>), Some(<<" ","O","n"," ">>), Some(<<"n","o">>),
              Some(<<"Y","E","S">>), Some(<<"t","r","u","e","\t">>)}
RArgVals == {None, Some(S_EMPTY), Some(URL_B), Some(URL_LOCAL_IP), Some(URL_LOOKALIKE)}

REnvs ==
    [ ALBERTO_API_URL : RUrlVals,
      PUP_BACKEND_URL : {None, Some(S_EMPTY), Some(URL_B)},
      SYN_API_KEY : RKeyVals(S_SYNKEY),
      OPEN_API_KEY : RKeyVals(S_OPENKEY),
      PUP_PROVIDER : RProviderVals,
      PUP_ALLOW_KEYLESS_BACKEND : RFlagVals ]

NoEnv == [ v \in EnvVars |-> None ]
NoClient == NewClient(URL_DEFAULT, None, TRUE)

\* create_and_connect was not called
NoCreate == [ arg |-> None, raised |-> "none", client |-> NoClient ]

\* no request was sent
NoRequest == [ url |-> <<>>, headers |-> {} ]

RInit ==
    /\ renv \in REnvs
    /\ rarg \in RArgVals
    /\ rres = NoClient
    /\ rpc = "init"
    /\ rfirst = NoClient
    /\ rcc = NoCreate
    /\ out = NoRequest

\* os.environ written back with the URL from_env settled on
from_envEnviron_Exports(e, base_url) ==
    [e EXCEPT !.PUP_BACKEND_URL = Some(BackendUrl(e, base_url))]

\* os.environ after from_env(base_url): the function only calls os.environ.get
from_envEnviron(e, base_url) == e

\* client = PupClient.from_env(base_url=rarg)
Resolve ==
    /\ rpc = "init"
    /\ rres' = from_env(renv, rarg)
    /\ renv' = from_envEnviron(renv, rarg)
    /\ rpc' = "done"
    /\ UNCHANGED <<rarg, rfirst, rcc, out>>

\* a second PupClient.from_env(base_url=rarg), the first client kept and perhaps
\* connected and used meanwhile
ResolveAgain ==
    /\ rpc \in {"done", "called"}
    /\ rfirst' = rres
    /\ rres' = from_env(renv, rarg)
    /\ renv' = from_envEnviron(renv, rarg)
    /\ rpc' = "again"
    /\ UNCHANGED <<rarg, rcc, out>>

-----------------------------------------------------------------------------
(* PupClient: connection management and the request helper *)

\* is_connected: self._is_connected and self._session is not None
IsConnected(c) == c.is_connected /\ c.session

\* What constructing the resolver, connector and session can do: succeed or raise
ConnectOutcomes == {"ok", "raise"}

\* connect() without its `if self._session is not None: return`
connect_Unguarded(c, co) ==
    IF co = "raise" THEN c
    ELSE [c EXCEPT !.session = TRUE, !.is_connected = TRUE, !.nsessions = @ + 1]

\* connect() starting afresh each time it returns: the status cache is dropped
connect_DropsCache(c, co) ==
    IF ~c.session /\ co = "raise" THEN c
    ELSE [c EXCEPT !.session = TRUE, !.is_connected = TRUE,
                   !.nsessions = IF c.session THEN @ ELSE @ + 1,
                   !.status_cache = None, !.cache_timestamp = None]

\* connect(): the client afterwards
connect(c, co) ==
    IF c.session THEN c
    ELSE IF co = "raise" THEN c
    ELSE [c EXCEPT !.session = TRUE, !.is_connected = TRUE, !.nsessions = @ + 1]

\* close() dropping the session and leaving _is_connected as it is
close_SessionOnly(c) ==
    IF c.session THEN [c EXCEPT !.session = FALSE, !.nsessions = @ - 1] ELSE c

\* PupClient.close()
close(c) ==
    IF c.session
    THEN [c EXCEPT !.session = FALSE, !.is_connected = FALSE, !.nsessions = @ - 1]
    ELSE c

\* connect() raised
connectRaises(c, co) == ~c.session /\ co # "ok"

\* What the upstream can answer to one request: an HTTP response (its status, and
\* its body: JSON of the expected shape, other JSON, or not JSON), no response
\* within the timeout, or a transport error
Http(status, body) == [ t |-> "http", status |-> status, body |-> body ]
UpstreamOutcomes ==
    { Http(200, "valid"), Http(200, "bad_schema"), Http(200, "not_json"),
      Http(401, "valid"), Http(404, "valid"), Http(404, "not_json"),
      Http(408, "not_json"), Http(500, "valid"),
      [ t |-> "timeout", status |-> 0, body |-> "not_json" ],
      [ t |-> "client_error", status |-> 0, body |-> "not_json" ] }

\* Every answer _request tells apart.  Bodies: "valid" (a JSON object of the
\* expected shape), "bad_schema" (a JSON object of another shape), "error_object"
\* (a JSON object with an "error" member), "json_other" (JSON that is not an
\* object: a list, a string, a number, null), "not_json"
RequestStatuses == {200, 400, 401, 404, 408, 500, 503}
BodyKinds == {"valid", "bad_schema", "error_object", "json_other", "not_json"}
RequestOutcomes ==
    { Http(st, b) : st \in RequestStatuses, b \in BodyKinds }
      \cup { [ t |-> "timeout", status |-> 0, body |-> "not_json" ],
             [ t |-> "client_error", status |-> 0, body |-> "not_json" ] }

\* no answer
NoAnswer == [ t |-> "none", status |-> 0, body |-> "none" ]

\* _request: "ok" (the parsed JSON is returned) or the exception class raised.
\* response_data.get("error", ...) raises AttributeError when the JSON parsed is
\* not an object
_request(o) ==
    IF o.t = "timeout" THEN "PupTimeoutError"
    ELSE IF o.t = "client_error" THEN "PupConnectionError"
    ELSE IF o.status = 401 THEN "PupConnectionError"
    ELSE IF o.status = 408 THEN "PupTimeoutError"
    ELSE IF o.status >= 500 THEN "PupConnectionError"
    ELSE IF o.body = "not_json" THEN "PupError"
    ELSE IF o.status >= 400
    THEN (IF o.body = "json_other" THEN "AttributeError" ELSE "PupError")
    ELSE "ok"

\* the message of the PupError raised for a JSON object with status >= 400:
\* response_data.get("error", "Unknown error")
_requestMessage(o) ==
    IF o.t = "http" /\ _request(o) = "PupError" /\ o.body # "not_json"
    THEN (IF o.body = "error_object" THEN "payload.error" ELSE "Unknown error")
    ELSE "other"

\* say_woof / get_status: _request, then the pydantic model built from the JSON
\* (PupStatus(**response) raises TypeError when response is not a mapping)
CallResult(o) ==
    LET r == _request(o)
    IN  IF r # "ok" THEN r
        ELSE IF o.body \in {"bad_schema", "error_object"} THEN "ValidationError"
        ELSE IF o.body = "json_other" THEN "TypeError"
        ELSE "ok"

\* headers with the Authorization line written whatever api_key is
_build_headers_Unconditional(c) ==
    { <<"Content-Type", <<"application/json">> >>,
      <<"Authorization", <<"Bearer ">> \o (IF c.api_key = None THEN <<"None">>
                                           ELSE c.api_key[1])>> }

\* _build_headers: name/value pairs; the Cloudflare Access variables are unset
_build_headers(c) ==
    { <<"Content-Type", <<"application/json">> >> }
      \cup (IF Truthy(c.api_key)
            THEN { <<"Authorization", <<"Bearer ">> \o c.api_key[1]>> }
            ELSE {})

\* the api_key arguments create_and_connect is called with
RApiKeyVals == {None, Some(S_EMPTY), Some(<<"s","k","3">>)}

\* PupClient.create_and_connect(base_url, api_key): the exception it raises
\* ("none" if it returns) and the client it returns
create_and_connect(e, base_url, api_key, co) ==
    LET backend_url == BackendUrl(e, base_url)
        key == IF Truthy(api_key) THEN api_key
               ELSE IF KeyUsable(e.SYN_API_KEY) THEN e.SYN_API_KEY
               ELSE IF KeyUsable(e.OPEN_API_KEY) THEN e.OPEN_API_KEY
               ELSE None
        made == IF Truthy(RemoteVar(e)) THEN NewClient(backend_url, None, FALSE)
                ELSE NewClient(backend_url, key, FALSE)
    IN  IF ~Truthy(RemoteVar(e)) /\ ~Truthy(key)
        THEN [ arg |-> api_key, raised |-> "ValueError", client |-> NoClient ]
        ELSE IF connectRaises(made, co)
        THEN [ arg |-> api_key, raised |-> "ConnectError", client |-> NoClient ]
        ELSE [ arg |-> api_key, raised |-> "none", client |-> connect(made, co) ]

\* await PupClient.create_and_connect(base_url=rarg, api_key=api_key), in the
\* environment from_env was called in
CreateAndConnect(api_key, co) ==
    /\ rpc = "done"
    /\ rcc' = create_and_connect(renv, rarg, api_key, co)
    /\ rpc' = "created"
    /\ UNCHANGED <<renv, rarg, rres, rfirst, out>>

\* the resolved client connects and sends a request: the session is created
\* with _build_headers() and session.request adds none
Call ==
    /\ rpc = "done"
    /\ rres' = connect(rres, "ok")
    /\ out' = [ url |-> rres.base_url, headers |-> _build_headers(rres) ]
    /\ rpc' = "called"
    /\ UNCHANGED <<renv, rarg, rfirst, rcc>>

\* the cache test of get_status with the bound included
CacheFresh_Inclusive(c, t) ==
    /\ c.status_cache # None
    /\ c.cache_timestamp # None
    /\ t - c.cache_timestamp[1] <= CacheTTL

\* get_status: the cached PupStatus is still fresh at time t
CacheFresh(c, t) ==
    /\ c.status_cache # None
    /\ c.cache_timestamp # None
    /\ t - c.cache_timestamp[1] < CacheTTL

\* No call was made yet by the script.  op is the operation called last and ev
\* what its last step did: "hit" (get_status returned from the cache), "sent"
\* (a request was issued), "fetched" (get_status returned the upstream's answer),
\* "returned", "raised".  exc is the exception raised, sent whether the call
\* issued a request, o the upstream's answer, before the client as the call
\* began.  okStart / fetchStart are the start times of the last get_status that
\* returned a status / that returned one it fetched; prevOk / prevFetch are their
\* values as the call in gs.t0 started.
NoCall ==
    [ pc |-> "idle", op |-> "none", ev |-> "none", t0 |-> 0,
      result |-> None, fetched |-> None,
      okStart |-> None, fetchStart |-> None, prevOk |-> None, prevFetch |-> None,
      exc |-> "none", sent |-> FALSE, o |-> NoAnswer, msg |-> "other",
      before |-> NoClient ]

\* a call of the script begins
Started(op) ==
    [gs EXCEPT !.op = op, !.t0 = now, !.prevOk = gs.okStart, !.prevFetch = gs.fetchStart,
               !.result = None, !.exc = "none", !.sent = FALSE, !.o = NoAnswer,
               !.msg = "other", !.before = clients[1]]

\* PupClient.get_status on client 1, up to its return from the cache or its
\* `await self._request("GET", "/status")`
get_statusBegin ==
    /\ gs.pc = "idle"
    /\ Len(clients) = 1
    /\ LET c == clients[1]
           started == Started("get_status")
       IN  IF CacheFresh(c, now)
           THEN gs' = [started EXCEPT !.ev = "hit", !.result = c.status_cache,
                                      !.okStart = Some(now)]
           ELSE IF ~c.session
           THEN \* self.session raises PupConnectionError
                gs' = [started EXCEPT !.ev = "raised", !.exc = "PupConnectionError"]
           ELSE gs' = [started EXCEPT !.pc = "waiting", !.ev = "sent", !.sent = TRUE]
    /\ UNCHANGED <<gvars, rvars>>

\* PupClient.get_status from the upstream's answer o to its return
get_statusEnd(o, available) ==
    /\ gs.pc = "waiting"
    /\ gs.op = "get_status"
    /\ IF CallResult(o) = "ok"
       THEN /\ clients' = [clients EXCEPT ![1] =
                              [@ EXCEPT !.status_cache = Some(available),
                                        !.cache_timestamp = Some(gs.t0)]]
            /\ gs' = [gs EXCEPT !.pc = "idle", !.ev = "fetched", !.o = o,
                                !.result = Some(available), !.fetched = Some(available),
                                !.okStart = Some(gs.t0), !.fetchStart = Some(gs.t0)]
       ELSE /\ clients' = clients
            /\ gs' = [gs EXCEPT !.pc = "idle", !.ev = "raised", !.o = o,
                                !.exc = CallResult(o)]
    /\ UNCHANGED <<env, phase, stateClient, pupClient, reqs, now, resp, degraded>>
    /\ UNCHANGED rvars

\* PupClient._request on client 1 (as list_agents calls it), up to the exception
\* of self.session or to session.request
_requestBegin ==
    /\ gs.pc = "idle"
    /\ Len(clients) = 1
    /\ IF ~clients[1].session
       THEN \* self.session raises PupConnectionError
            gs' = [Started("_request") EXCEPT !.ev = "raised",
                                              !.exc = "PupConnectionError"]
       ELSE gs' = [Started("_request") EXCEPT !.pc = "waiting", !.ev = "sent",
                                              !.sent = TRUE]
    /\ UNCHANGED <<gvars, rvars>>

\* PupClient._request from the upstream's answer o to its return
_requestEnd(o) ==
    /\ gs.pc = "waiting"
    /\ gs.op = "_request"
    /\ gs' = [gs EXCEPT !.pc = "idle", !.o = o,
                        !.ev = IF _request(o) = "ok" THEN "returned" ELSE "raised",
                        !.exc = IF _request(o) = "ok" THEN "none" ELSE _request(o),
                        !.msg = _requestMessage(o)]
    /\ UNCHANGED <<gvars, rvars>>

\* PupClient.health_check on client 1, up to its return or the upstream call of
\* get_status: every exception of get_status is caught and False is returned
health_checkBegin ==
    /\ gs.pc = "idle"
    /\ Len(clients) = 1
    /\ LET c == clients[1]
           started == Started("health_check")
       IN  IF CacheFresh(c, now)
           THEN gs' = [started EXCEPT !.ev = "hit", !.result = c.status_cache]
           ELSE IF ~c.session
           THEN gs' = [started EXCEPT !.ev = "returned", !.result = Some(FALSE)]
           ELSE gs' = [started EXCEPT !.pc = "waiting", !.ev = "sent", !.sent = TRUE]
    /\ UNCHANGED <<gvars, rvars>>

\* PupClient.health_check from the upstream's answer o to its return
health_checkEnd(o, available) ==
    /\ gs.pc = "waiting"
    /\ gs.op = "health_check"
    /\ IF CallResult(o) = "ok"
       THEN /\ clients' = [clients EXCEPT ![1] =
                              [@ EXCEPT !.status_cache = Some(available),
                                        !.cache_timestamp = Some(gs.t0)]]
            /\ gs' = [gs EXCEPT !.pc = "idle", !.ev = "returned", !.o = o,
                                !.result = Some(available), !.fetched = Some(available),
                                !.fetchStart = Some(gs.t0)]
       ELSE /\ clients' = clients
            /\ gs' = [gs EXCEPT !.pc = "idle", !.ev = "returned", !.o = o,
                                !.result = Some(FALSE)]
    /\ UNCHANGED <<env, phase, stateClient, pupClient, reqs, now, resp, degraded>>
    /\ UNCHANGED rvars

\* await client.connect() in the script
Connect(co) ==
    /\ gs.pc = "idle"
    /\ Len(clients) = 1
    /\ clients' = [clients EXCEPT ![1] = connect(@, co)]
    /\ gs' = [Started("connect") EXCEPT
                 !.ev = IF connectRaises(clients[1], co) THEN "raised" ELSE "returned",
                 !.exc = IF connectRaises(clients[1], co) THEN "ConnectError" ELSE "none"]
    /\ UNCHANGED <<env, phase, stateClient, pupClient, reqs, now, resp, degraded>>
    /\ UNCHANGED rvars

\* await client.close() in the script
Close ==
    /\ gs.pc = "idle"
    /\ Len(clients) = 1
    /\ clients' = [clients EXCEPT ![1] = close(@)]
    /\ gs' = [Started("close") EXCEPT !.ev = "returned"]
    /\ UNCHANGED <<env, phase, stateClient, pupClient, reqs, now, resp, degraded>>
    /\ UNCHANGED rvars

-----------------------------------------------------------------------------
(* The gateway: configuration helpers *)

\* the environments the gateway process runs in
GEnvs ==
    { NoEnv,
      [NoEnv EXCEPT !.OPEN_API_KEY = Some(S_OPENKEY)],
      [NoEnv EXCEPT !.ALBERTO_API_URL = Some(URL_A)],
      [NoEnv EXCEPT !.PUP_BACKEND_URL = Some(URL_B), !.OPEN_API_KEY = Some(S_OPENKEY)],
      [NoEnv EXCEPT !.ALBERTO_API_URL = Some(URL_LOCAL_IP)],
      [NoEnv EXCEPT !.ALBERTO_API_URL = Some(URL_LOCAL_IP),
                    !.PUP_ALLOW_KEYLESS_BACKEND = Some(<<"1">>)] }

\* _remote_backend_url()
_remote_backend_url(e) == RemoteVar(e)

\* _force_live_backend allowing a keyless backend only on the flag
_force_live_backend_FlagOnly(e) ==
    LET url == _remote_backend_url(e)
    IN  IF ~Truthy(url) THEN FALSE ELSE KeylessFlag(e)

\* _force_live_backend()
_force_live_backend(e) ==
    LET url == _remote_backend_url(e)
    IN  IF ~Truthy(url) THEN FALSE
        ELSE ~startswithAny(url[1], _LOCAL_PREFIXES) \/ KeylessFlag(e)

\* _force_live_backend() in each environment of GEnvs: it reads os.environ and
\* nothing else
ForceLive == [e \in GEnvs |-> _force_live_backend(e)]

\* PupClient.from_env(base_url=_remote_backend_url()) in each environment of GEnvs
FreshClient == [e \in GEnvs |-> from_env(e, _remote_backend_url(e))]

\* needs_refresh that leaves a missing client missing
needs_refresh_HeldOnly(h, cid, e) ==
    /\ cid # 0
    /\ \/ h[cid].demo_mode
       \/ rstripSlash(h[cid].base_url) # rstripSlash(PyOr(_remote_backend_url(e), Some(<<>>))[1])

\* needs_refresh without the comparison of the URLs
needs_refresh_NoUrl(h, cid, e) == cid = 0 \/ h[cid].demo_mode

\* needs_refresh comparing base_url with the remote URL as it is configured
needs_refresh_RawUrl(h, cid, e) ==
    \/ cid = 0
    \/ h[cid].demo_mode
    \/ h[cid].base_url # PyOr(_remote_backend_url(e), Some(<<>>))[1]

\* needs_refresh of _ensure_live_client, for the client held (0 for None)
needs_refresh(h, cid, e) ==
    \/ cid = 0
    \/ h[cid].demo_mode
    \/ rstripSlash(h[cid].base_url)
         # rstripSlash(PyOr(_remote_backend_url(e), Some(<<>>))[1])

\* _ensure_live_client(app): the client returned (cid), the heap, app.state.client
\* and _pup_client afterwards
_ensure_live_client(h, sc, pc, e) ==
    IF ~ForceLive[e] \/ ~needs_refresh(h, sc, e)
    THEN [ cid |-> sc, h |-> h, sc |-> sc, pc |-> pc ]
    ELSE [ cid |-> Len(h) + 1,
           h |-> Append(h, FreshClient[e]),
           sc |-> Len(h) + 1,
           pc |-> Len(h) + 1 ]

\* the heap has room for the client _ensure_live_client may create
HeapRoom(h, sc, e) ==
    (ForceLive[e] /\ needs_refresh(h, sc, e)) => Len(h) < MaxClients

\* the reset of demo_mode done whatever force_live is
ForceLiveReset_Always(c, force_live) == [c EXCEPT !.demo_mode = FALSE]

\* `if force_live and client.demo_mode: client.demo_mode = False`
ForceLiveReset(c, force_live) ==
    IF force_live /\ c.demo_mode THEN [c EXCEPT !.demo_mode = FALSE] ELSE c

\* the demo short-circuit with its force_live test inverted
DemoShortCircuit_Inverted(c, force_live) == force_live /\ c.demo_mode

\* the demo short-circuit of chat_endpoint and status_endpoint
DemoShortCircuit(c, force_live) == ~force_live /\ c.demo_mode

\* the failure branches degrading whatever force_live is
OnFailure_AlwaysDemo(c, force_live) ==
    [c EXCEPT !.is_connected = FALSE, !.demo_mode = TRUE]

\* the failure branches never degrading
OnFailure_NeverDemo(c, force_live) == [c EXCEPT !.is_connected = FALSE]

\* the failure branches: `client._is_connected = False; if not force_live: demo_mode = True`
OnFailure(c, force_live) ==
    IF ~force_live
    THEN [c EXCEPT !.is_connected = FALSE, !.demo_mode = TRUE]
    ELSE [c EXCEPT !.is_connected = FALSE]

\* an except clause naming the transport errors only
ChatCaught_TransportOnly(exc) == exc \in {"PupTimeoutError", "PupConnectionError"}

\* `except (PupTimeoutError, PupConnectionError, PupError, Exception)` of chat_endpoint
ChatCaught(exc) ==
    exc \in {"PupTimeoutError", "PupConnectionError", "PupError", "ValidationError",
             "TypeError", "AttributeError"}

-----------------------------------------------------------------------------
(* Responses and in-flight requests *)

\* A response with what its handling did.  Fields of the HTTP body: success,
\* response (0: the backend's reply, 1..4: a demo string), execution_time,
\* available, connected, demo_mode, error, exc.  The others record the handling.
NoResp ==
    [ kind |-> "none", path |-> "none", client |-> 0, force_live |-> FALSE,
      success |-> FALSE, response |-> 0, execution_time |-> 0,
      available |-> FALSE, connected |-> FALSE, demo_mode |-> FALSE,
      error |-> <<>>, exc |-> "none", status |-> "none",
      upstream |-> FALSE, opened |-> FALSE, startDemo |-> FALSE,
      demoBefore |-> FALSE, demoAfter |-> FALSE,
      sessionAfter |-> FALSE, connAfter |-> FALSE,
      envForced |-> FALSE, envRemote |-> None, envStable |-> TRUE, alone |-> TRUE,
      afterDegraded |-> FALSE, scAfter |-> 0 ]

Idle ==
    [ kind |-> "idle", client |-> 0, force_live |-> FALSE, t0 |-> 0,
      startDemo |-> FALSE, envForced |-> FALSE, envStable |-> TRUE, alone |-> TRUE,
      afterDegraded |-> FALSE ]

Slots == 1..MaxInflight

Busy(s) == reqs[s].kind # "idle"

\* _run_demo_chat: ChatResponse(success=True, response=random.choice(...), execution_time=0.1)
_run_demo_chat(r, i) ==
    [r EXCEPT !.success = TRUE, !.response = i, !.execution_time = ExecTimeMs]

\* The configuration is forced-live, read off the environment: a remote-backend
\* variable is non-empty and either does not start with a loopback prefix or the
\* keyless flag is truthy
EnvForced(e) ==
    /\ (Truthy(e.ALBERTO_API_URL) \/ Truthy(e.PUP_BACKEND_URL))
    /\ \/ \A p \in _LOCAL_PREFIXES :
            ~startswith((IF Truthy(e.ALBERTO_API_URL) THEN e.ALBERTO_API_URL
                         ELSE e.PUP_BACKEND_URL)[1], p)
       \/ lower(strip(PyOr(e.PUP_ALLOW_KEYLESS_BACKEND, Some(<<>>))[1])) \in _TRUE_VALUES

\* EnvForced in each environment of GEnvs
Forced == [e \in GEnvs |-> EnvForced(e)]

\* requests are served once the lifespan has started, or without any lifespan
\* (an app driven without its startup hook, as src/test_web.py does)
Serving == phase \in {"created", "bare", "running"}

\* the phase after a request was taken
Served == IF phase = "created" THEN "bare" ELSE phase

\* the free slot a new request takes
FreeSlot(s) == ~Busy(s) /\ \A t \in Slots : t < s => Busy(t)

\* what every handler records when it starts: `pre` is _ensure_live_client's result
StartRecord(kind, pre, fl) ==
    [NoResp EXCEPT !.kind = kind, !.client = pre.cid, !.force_live = fl,
                   !.envForced = Forced[env], !.envRemote = RemoteVar(env),
                   !.alone = \A t \in Slots : ~Busy(t),
                   !.startDemo = /\ stateClient # 0
                                 /\ clients[stateClient].demo_mode
                                 /\ ~Forced[env],
                   !.afterDegraded = degraded]

\* the response as returned: the state of the handler's client at that moment
Final(r, h, sc) ==
    [r EXCEPT !.demoAfter = IF r.client = 0 THEN FALSE ELSE h[r.client].demo_mode,
              !.sessionAfter = IF r.client = 0 THEN FALSE ELSE h[r.client].session,
              !.connAfter = IF r.client = 0 THEN FALSE ELSE h[r.client].is_connected,
              !.scAfter = sc]

\* A PupClient nothing refers to any more is garbage: of its state only a session
\* it never closed remains
Dropped(c) ==
    [NewClient(URL_DEFAULT, None, FALSE) EXCEPT !.session = c.session,
                                                !.nsessions = c.nsessions]

\* the heap once the clients that neither app.state.client, _pup_client nor a
\* suspended handler refers to are dropped
Collect(h, sc, pc, rq) ==
    [k \in 1..Len(h) |->
        IF k = sc \/ k = pc \/ \E t \in Slots : rq[t].kind # "idle" /\ rq[t].client = k
        THEN h[k]
        ELSE Dropped(h[k])]

\* a handler returns without having suspended
Respond(s, h, sc, pc, r) ==
    /\ reqs' = [t \in Slots |-> IF Busy(t) THEN [reqs[t] EXCEPT !.alone = FALSE]
                                ELSE reqs[t]]
    /\ clients' = Collect(h, sc, pc, reqs')
    /\ stateClient' = sc
    /\ pupClient' = pc
    /\ resp' = Final(r, h, sc)
    /\ phase' = Served
    /\ UNCHANGED <<env, now, degraded>>

\* a handler suspends at its upstream call
Suspend(s, h, sc, pc, r) ==
    /\ stateClient' = sc
    /\ pupClient' = pc
    /\ reqs' = [t \in Slots |->
                  IF t = s
                  THEN [ kind |-> r.kind, client |-> r.client, force_live |-> r.force_live,
                         t0 |-> now, startDemo |-> r.startDemo,
                         envForced |-> r.envForced, envStable |-> TRUE,
                         alone |-> r.alone, afterDegraded |-> r.afterDegraded ]
                  ELSE IF Busy(t) THEN [reqs[t] EXCEPT !.alone = FALSE]
                  ELSE reqs[t]]
    /\ clients' = Collect(h, sc, pc, reqs')
    /\ resp' = NoResp
    /\ phase' = Served
    /\ UNCHANGED <<env, now, degraded>>

\* the record of a suspended handler, resumed
Resumed(q) ==
    [NoResp EXCEPT !.kind = q.kind, !.client = q.client, !.force_live = q.force_live,
                   !.upstream = TRUE, !.startDemo = q.startDemo,
                   !.envForced = q.envForced, !.envRemote = RemoteVar(env),
                   !.envStable = q.envStable, !.alone = q.alone,
                   !.afterDegraded = q.afterDegraded]

\* a suspended handler returns
Complete(s, h, r, deg) ==
    /\ reqs' = [reqs EXCEPT ![s] = Idle]
    /\ clients' = Collect(h, stateClient, pupClient, reqs')
    /\ resp' = Final(r, h, stateClient)
    /\ degraded' = deg
    /\ UNCHANGED <<env, phase, now, stateClient, pupClient>>

-----------------------------------------------------------------------------
(* The gateway: endpoints *)

\* GET / : home
Home(s) ==
    /\ Serving
    /\ FreeSlot(s)
    /\ HeapRoom(clients, stateClient, env)
    /\ LET pre == _ensure_live_client(clients, stateClient, pupClient, env)
           fl == ForceLive[env]
           demo == pre.cid = 0 \/ (pre.h[pre.cid].demo_mode /\ ~fl)
           conn == pre.cid # 0 /\ IsConnected(pre.h[pre.cid]) /\ ~demo
       IN  Respond(s, pre.h, pre.sc, pre.pc,
                   [StartRecord("home", pre, fl) EXCEPT
                       !.path = "page", !.connected = conn, !.demo_mode = demo])

\* POST /api/chat, up to its return or its upstream call.
\* co: what connect() does if it is called; i: random.choice of the demo reply
ChatBegin(s, co, i) ==
    /\ Serving
    /\ FreeSlot(s)
    /\ HeapRoom(clients, stateClient, env)
    /\ LET pre == _ensure_live_client(clients, stateClient, pupClient, env)
           fl == ForceLive[env]
           base == StartRecord("chat", pre, fl)
       IN  IF pre.cid = 0
           THEN Respond(s, pre.h, pre.sc, pre.pc,
                        _run_demo_chat([base EXCEPT !.path = "noclient"], i))
           ELSE
           LET c1 == ForceLiveReset(pre.h[pre.cid], fl)
               h1 == [pre.h EXCEPT ![pre.cid] = c1]
               b1 == [base EXCEPT !.demoBefore = c1.demo_mode]
           IN  IF DemoShortCircuit(c1, fl)
               THEN Respond(s, h1, pre.sc, pre.pc,
                            _run_demo_chat([b1 EXCEPT !.path = "demo"], i))
               ELSE
               LET c2 == IF IsConnected(c1) THEN c1 ELSE connect(c1, co)
                   raised == ~IsConnected(c1) /\ connectRaises(c1, co)
                   b2 == [b1 EXCEPT !.opened = ~c1.session /\ c2.session]
               IN  IF raised
                   THEN Respond(s, [h1 EXCEPT ![pre.cid] = OnFailure(c2, fl)],
                                pre.sc, pre.pc,
                                _run_demo_chat([b2 EXCEPT !.path = "connect_failed"], i))
                   ELSE IF ~c2.session
                   THEN \* self.session raises PupConnectionError: no request is sent
                        Respond(s, [h1 EXCEPT ![pre.cid] = OnFailure(c2, fl)],
                                pre.sc, pre.pc,
                                _run_demo_chat([b2 EXCEPT !.path = "call_failed"], i))
                   ELSE Suspend(s, [h1 EXCEPT ![pre.cid] = c2], pre.sc, pre.pc, b2)

\* POST /api/chat, from the upstream's answer o to its return
ChatEnd(s, o, i) ==
    /\ reqs[s].kind = "chat"
    /\ LET q == reqs[s]
           c == clients[q.client]
           res == CallResult(o)
           r == [Resumed(q) EXCEPT !.demoBefore = c.demo_mode]
       IN  IF res = "ok"
           THEN Complete(s, clients,
                         [r EXCEPT !.path = "ok", !.success = TRUE, !.response = 0],
                         degraded)
           ELSE IF ChatCaught(res)
           THEN Complete(s, [clients EXCEPT ![q.client] = OnFailure(c, q.force_live)],
                         _run_demo_chat([r EXCEPT !.path = "call_failed"], i),
                         degraded \/ (~q.envForced /\ q.envStable))
           ELSE Complete(s, clients, [r EXCEPT !.path = "raised", !.exc = res], degraded)

\* the failure dicts all carrying the exception, as the forced-live ones do
StatusFailure_Verbose(r, fl, exc) ==
    [r EXCEPT !.available = FALSE, !.connected = FALSE, !.demo_mode = ~fl,
              !.error = <<"connection_failed: ", exc>>,
              !.exc = exc]

\* the body of the status responses that report a failure: "error" is the
\* constant "connection_failed", or f"connection_failed: {exc}" when force_live
StatusFailure(r, fl, exc) ==
    [r EXCEPT !.available = FALSE, !.connected = FALSE, !.demo_mode = ~fl,
              !.error = IF fl THEN <<"connection_failed: ", exc>>
                        ELSE <<"connection_failed">>,
              !.exc = exc]

\* the body of the status response built from a PupStatus
StatusResult(r, c, fl, available) ==
    [r EXCEPT !.path = "ok", !.available = available,
              !.connected = IsConnected(c) /\ ~c.demo_mode,
              !.demo_mode = c.demo_mode /\ ~fl]

\* GET /api/status, up to its return or its upstream call
StatusBegin(s, co) ==
    /\ Serving
    /\ FreeSlot(s)
    /\ HeapRoom(clients, stateClient, env)
    /\ LET pre == _ensure_live_client(clients, stateClient, pupClient, env)
           fl == ForceLive[env]
           base == StartRecord("status", pre, fl)
       IN  IF pre.cid = 0
           THEN Respond(s, pre.h, pre.sc, pre.pc,
                        [base EXCEPT !.path = "noclient", !.available = FALSE,
                                     !.connected = FALSE, !.demo_mode = ~fl])
           ELSE
           LET c1 == ForceLiveReset(pre.h[pre.cid], fl)
               h1 == [pre.h EXCEPT ![pre.cid] = c1]
               b1 == [base EXCEPT !.demoBefore = c1.demo_mode]
           IN  IF DemoShortCircuit(c1, fl)
               THEN Respond(s, h1, pre.sc, pre.pc,
                            [b1 EXCEPT !.path = "demo", !.available = TRUE,
                                       !.connected = FALSE, !.demo_mode = TRUE])
               ELSE
               LET c2 == IF IsConnected(c1) THEN c1 ELSE connect(c1, co)
                   raised == ~IsConnected(c1) /\ connectRaises(c1, co)
                   b2 == [b1 EXCEPT !.opened = ~c1.session /\ c2.session]
               IN  IF raised
                   THEN Respond(s, [h1 EXCEPT ![pre.cid] = OnFailure(c2, fl)],
                                pre.sc, pre.pc,
                                StatusFailure([b2 EXCEPT !.path = "connect_failed"], fl,
                                              "ConnectError"))
                   ELSE IF CacheFresh(c2, now)
                   THEN Respond(s, [h1 EXCEPT ![pre.cid] = c2], pre.sc, pre.pc,
                                StatusResult(b2, c2, fl, c2.status_cache[1]))
                   ELSE IF ~c2.session
                   THEN \* self.session raises PupConnectionError: no request is sent
                        Respond(s, [h1 EXCEPT ![pre.cid] = OnFailure(c2, fl)],
                                pre.sc, pre.pc,
                                StatusFailure([b2 EXCEPT !.path = "call_failed"], fl,
                                              "PupConnectionError"))
                   ELSE Suspend(s, [h1 EXCEPT ![pre.cid] = c2], pre.sc, pre.pc, b2)

\* GET /api/status, from the upstream's answer o to its return
StatusEnd(s, o, available) ==
    /\ reqs[s].kind = "status"
    /\ LET q == reqs[s]
           c == clients[q.client]
           res == CallResult(o)
           r == [Resumed(q) EXCEPT !.demoBefore = c.demo_mode]
           cached == [c EXCEPT !.status_cache = Some(available),
                               !.cache_timestamp = Some(q.t0)]
       IN  IF res = "ok"
           THEN Complete(s, [clients EXCEPT ![q.client] = cached],
                         StatusResult(r, cached, q.force_live, available), degraded)
           ELSE Complete(s, [clients EXCEPT ![q.client] = OnFailure(c, q.force_live)],
                         StatusFailure([r EXCEPT !.path = "call_failed"], q.force_live, res),
                         degraded)

\* {"status": "healthy" if healthy else "unhealthy"}
HealthStatus(healthy) == IF healthy THEN "healthy" ELSE "unhealthy"

\* what GET /health records when it starts: it reads _pup_client and nothing else
HealthRecord ==
    [StartRecord("health", [cid |-> pupClient], FALSE) EXCEPT
        !.demoBefore = pupClient # 0 /\ clients[pupClient].demo_mode]

\* GET /health, up to its return or the upstream call of get_status
HealthBegin(s) ==
    /\ Serving
    /\ FreeSlot(s)
    /\ IF pupClient = 0
       THEN Respond(s, clients, stateClient, pupClient,
                    [HealthRecord EXCEPT !.path = "noclient", !.status = "demo_mode"])
       ELSE
       LET c == clients[pupClient]
       IN  IF CacheFresh(c, now)
           THEN Respond(s, clients, stateClient, pupClient,
                        [HealthRecord EXCEPT !.path = "ok",
                                             !.available = c.status_cache[1],
                                             !.status = HealthStatus(c.status_cache[1])])
           ELSE IF ~c.session
           THEN \* self.session raises PupConnectionError, health_check returns False
                Respond(s, clients, stateClient, pupClient,
                        [HealthRecord EXCEPT !.path = "call_failed",
                                             !.status = HealthStatus(FALSE)])
           ELSE Suspend(s, clients, stateClient, pupClient, HealthRecord)

\* GET /health, from the upstream's answer o to its return.  health_check returns
\* False on any exception: the body does not tell which one
HealthEnd(s, o, available) ==
    /\ reqs[s].kind = "health"
    /\ LET q == reqs[s]
           c == clients[q.client]
           res == CallResult(o)
           r == [Resumed(q) EXCEPT !.demoBefore = c.demo_mode]
           cached == [c EXCEPT !.status_cache = Some(available),
                               !.cache_timestamp = Some(q.t0)]
       IN  IF res = "ok"
           THEN Complete(s, [clients EXCEPT ![q.client] = cached],
                         [r EXCEPT !.path = "ok", !.available = available,
                                   !.status = HealthStatus(available)],
                         degraded)
           ELSE Complete(s, clients,
                         [r EXCEPT !.path = "call_failed",
                                   !.status = HealthStatus(FALSE)],
                         degraded)

\* what GET /api/capabilities and GET /api/agents record when they start: they
\* read _pup_client and nothing else
GlobalRecord(kind) ==
    [StartRecord(kind, [cid |-> pupClient], FALSE) EXCEPT
        !.demoBefore = pupClient # 0 /\ clients[pupClient].demo_mode]

\* GET /api/capabilities, up to its return or the upstream call of get_status.
\* status is the list returned: "chat,demo_mode", "chat", or "enabled" for the
\* names of the enabled capabilities of the PupStatus
CapabilitiesBegin(s) ==
    /\ Serving
    /\ FreeSlot(s)
    /\ IF pupClient = 0
       THEN Respond(s, clients, stateClient, pupClient,
                    [GlobalRecord("capabilities") EXCEPT !.path = "noclient",
                                                         !.status = "chat,demo_mode"])
       ELSE
       LET c == clients[pupClient]
       IN  IF CacheFresh(c, now)
           THEN Respond(s, clients, stateClient, pupClient,
                        [GlobalRecord("capabilities") EXCEPT !.path = "ok",
                                                             !.status = "enabled"])
           ELSE IF ~c.session
           THEN \* self.session raises PupConnectionError, the endpoint catches it
                Respond(s, clients, stateClient, pupClient,
                        [GlobalRecord("capabilities") EXCEPT
                            !.path = "call_failed", !.status = "chat"])
           ELSE Suspend(s, clients, stateClient, pupClient, GlobalRecord("capabilities"))

\* GET /api/capabilities, from the upstream's answer o to its return.  The endpoint
\* answers ["chat"] on any exception: the body does not tell which one
CapabilitiesEnd(s, o, available) ==
    /\ reqs[s].kind = "capabilities"
    /\ LET q == reqs[s]
           c == clients[q.client]
           res == CallResult(o)
           r == [Resumed(q) EXCEPT !.demoBefore = c.demo_mode]
           cached == [c EXCEPT !.status_cache = Some(available),
                               !.cache_timestamp = Some(q.t0)]
       IN  IF res = "ok"
           THEN Complete(s, [clients EXCEPT ![q.client] = cached],
                         [r EXCEPT !.path = "ok", !.status = "enabled"], degraded)
           ELSE Complete(s, clients,
                         [r EXCEPT !.path = "call_failed", !.status = "chat"],
                         degraded)

\* GET /api/agents, up to its return or the upstream call of list_agents.
\* status is the list returned: "none" for [], "agents" for the backend's list
AgentsBegin(s) ==
    /\ Serving
    /\ FreeSlot(s)
    /\ IF pupClient = 0
       THEN Respond(s, clients, stateClient, pupClient,
                    [GlobalRecord("agents") EXCEPT !.path = "noclient"])
       ELSE IF ~clients[pupClient].session
       THEN \* self.session raises PupConnectionError, the endpoint catches it
            Respond(s, clients, stateClient, pupClient,
                    [GlobalRecord("agents") EXCEPT !.path = "call_failed"])
       ELSE Suspend(s, clients, stateClient, pupClient, GlobalRecord("agents"))

\* GET /api/agents, from the upstream's answer o to its return.  The endpoint
\* answers [] on any exception: the body does not tell which one
AgentsEnd(s, o) ==
    /\ reqs[s].kind = "agents"
    /\ LET q == reqs[s]
           c == clients[q.client]
           res == _request(o)
           r == [Resumed(q) EXCEPT !.demoBefore = c.demo_mode]
       IN  IF res = "ok"
           THEN Complete(s, clients, [r EXCEPT !.path = "ok", !.status = "agents"],
                         degraded)
           ELSE Complete(s, clients, [r EXCEPT !.path = "call_failed"], degraded)

-----------------------------------------------------------------------------
(* The gateway: lifespan, environment, clock *)

\* lifespan, up to its yield
Startup(co) ==
    /\ phase = "created"
    /\ \A t \in Slots : ~Busy(t)
    /\ LET h0 == IF stateClient = 0 THEN Append(clients, from_env(env, None))
                 ELSE clients
           sc0 == IF stateClient = 0 THEN Len(clients) + 1 ELSE stateClient
           pre == _ensure_live_client(h0, sc0, pupClient, env)
           cid == IF pre.cid # 0 THEN pre.cid ELSE sc0
           fl == ForceLive[env]
           c1 == ForceLiveReset(pre.h[cid], fl)
           c2 == IF c1.demo_mode THEN c1 ELSE connect(c1, co)
           raised == ~c1.demo_mode /\ connectRaises(c1, co)
           c3 == IF raised THEN OnFailure(c2, fl) ELSE c2
           h3 == [pre.h EXCEPT ![cid] = c3]
           r == [StartRecord("startup", [pre EXCEPT !.cid = cid], fl) EXCEPT
                    !.path = IF c1.demo_mode THEN "demo"
                             ELSE IF raised THEN "connect_failed" ELSE "connected",
                    !.demoBefore = c1.demo_mode,
                    !.opened = ~c1.session /\ c2.session]
       IN  /\ Len(pre.h) <= MaxClients
           /\ clients' = Collect(h3, pre.sc, cid, reqs)
           /\ stateClient' = pre.sc
           /\ pupClient' = cid
           /\ resp' = Final(r, h3, pre.sc)
    /\ phase' = "running"
    /\ UNCHANGED <<env, reqs, now, degraded>>

\* lifespan, after its yield (the finally block)
Shutdown ==
    /\ phase = "running"
    /\ \A t \in Slots : ~Busy(t)
    /\ clients' = IF pupClient # 0 /\ clients[pupClient].session
                  THEN [clients EXCEPT ![pupClient] = close(@)]
                  ELSE clients
    /\ phase' = "stopped"
    /\ resp' = NoResp
    /\ UNCHANGED <<env, stateClient, pupClient, reqs, now, degraded>>

\* the environment of the process changes (e.g. a secret injected after start)
SetEnv(e) ==
    /\ Serving
    /\ e \in GEnvs
    /\ e # env
    /\ env' = e
    /\ reqs' = [t \in Slots |-> IF Busy(t) THEN [reqs[t] EXCEPT !.envStable = FALSE]
                                ELSE reqs[t]]
    /\ degraded' = (degraded /\ ~Forced[env'])
    /\ resp' = NoResp
    /\ UNCHANGED <<phase, clients, stateClient, pupClient, now>>

\* time passes
Tick ==
    /\ Serving
    /\ now < MaxTicks * TickStep
    /\ now' = now + TickStep
    /\ resp' = NoResp
    /\ UNCHANGED <<env, phase, clients, stateClient, pupClient, reqs, degraded>>

-----------------------------------------------------------------------------
(* Specifications *)

GInit ==
    /\ env \in GEnvs
    /\ phase = "created"
    /\ clients = <<>>
    /\ stateClient = 0
    /\ pupClient = 0
    /\ reqs = [t \in Slots |-> Idle]
    /\ now = 0
    /\ resp = NoResp
    /\ degraded = FALSE

Init ==
    /\ GInit
    /\ renv = NoEnv
    /\ rarg = None
    /\ rres = NoClient
    /\ rpc = "off"
    /\ rfirst = NoClient
    /\ rcc = NoCreate
    /\ out = NoRequest
    /\ gs = NoCall

\* no handler is suspended
Quiet == \A t \in Slots : ~Busy(t)

\* The gateway serving one request at a time: a request is taken when no handler
\* is suspended; the environment may change at any moment, also during a request
Next ==
    \/ \E co \in ConnectOutcomes : Startup(co) /\ UNCHANGED <<rvars, cvars>>
    \/ Shutdown /\ UNCHANGED <<rvars, cvars>>
    \/ \E e \in GEnvs : SetEnv(e) /\ UNCHANGED <<rvars, cvars>>
    \/ \E s \in Slots : Quiet /\ Home(s) /\ UNCHANGED <<rvars, cvars>>
    \/ \E s \in Slots, co \in ConnectOutcomes, i \in 1..NumDemoResponses :
          Quiet /\ ChatBegin(s, co, i) /\ UNCHANGED <<rvars, cvars>>
    \/ \E s \in Slots, o \in UpstreamOutcomes, i \in 1..NumDemoResponses :
          ChatEnd(s, o, i) /\ UNCHANGED <<rvars, cvars>>
    \/ \E s \in Slots, co \in ConnectOutcomes :
          Quiet /\ StatusBegin(s, co) /\ UNCHANGED <<rvars, cvars>>
    \/ \E s \in Slots, o \in UpstreamOutcomes, available \in BOOLEAN :
          StatusEnd(s, o, available) /\ UNCHANGED <<rvars, cvars>>
    \/ \E s \in Slots : Quiet /\ HealthBegin(s) /\ UNCHANGED <<rvars, cvars>>
    \/ \E s \in Slots, o \in UpstreamOutcomes, available \in BOOLEAN :
          HealthEnd(s, o, available) /\ UNCHANGED <<rvars, cvars>>
    \/ \E s \in Slots : Quiet /\ CapabilitiesBegin(s) /\ UNCHANGED <<rvars, cvars>>
    \/ \E s \in Slots, o \in UpstreamOutcomes, available \in BOOLEAN :
          CapabilitiesEnd(s, o, available) /\ UNCHANGED <<rvars, cvars>>
    \/ \E s \in Slots : Quiet /\ AgentsBegin(s) /\ UNCHANGED <<rvars, cvars>>
    \/ \E s \in Slots, o \in UpstreamOutcomes :
          AgentsEnd(s, o) /\ UNCHANGED <<rvars, cvars>>

Spec == Init /\ [][Next]_vars

\* the resolver alone: from_env applied to every environment of REnvs
InitResolver ==
    /\ RInit
    /\ env = NoEnv
    /\ phase = "created"
    /\ clients = <<>>
    /\ stateClient = 0
    /\ pupClient = 0
    /\ reqs = [t \in Slots |-> Idle]
    /\ now = 0
    /\ resp = NoResp
    /\ degraded = FALSE
    /\ gs = NoCall

NextResolver ==
    \/ Resolve /\ UNCHANGED <<gvars, cvars>>
    \/ Call /\ UNCHANGED <<gvars, cvars>>
    \/ ResolveAgain /\ UNCHANGED <<gvars, cvars>>
    \/ \E api_key \in RApiKeyVals, co \in ConnectOutcomes :
          CreateAndConnect(api_key, co) /\ UNCHANGED <<gvars, cvars>>

SpecResolver == InitResolver /\ [][NextResolver]_vars

\* The gateway serving requests concurrently in one environment: up to
\* MaxInflight handlers of /api/chat and /api/status are suspended at their
\* upstream calls at once, and any of them resumes next
NextConcurrent ==
    \/ \E co \in ConnectOutcomes : Startup(co) /\ UNCHANGED <<rvars, cvars>>
    \/ \E s \in Slots : Home(s) /\ UNCHANGED <<rvars, cvars>>
    \/ \E s \in Slots, co \in ConnectOutcomes, i \in 1..NumDemoResponses :
          ChatBegin(s, co, i) /\ UNCHANGED <<rvars, cvars>>
    \/ \E s \in Slots, o \in UpstreamOutcomes, i \in 1..NumDemoResponses :
          ChatEnd(s, o, i) /\ UNCHANGED <<rvars, cvars>>
    \/ \E s \in Slots, co \in ConnectOutcomes :
          StatusBegin(s, co) /\ UNCHANGED <<rvars, cvars>>
    \/ \E s \in Slots, o \in UpstreamOutcomes, available \in BOOLEAN :
          StatusEnd(s, o, available) /\ UNCHANGED <<rvars, cvars>>

SpecConcurrent == Init /\ [][NextConcurrent]_vars

\* A script holding one PupClient and calling connect, get_status, _request and
\* close on it, one call after the other, while time passes
InitCache ==
    /\ env = NoEnv
    /\ phase = "created"
    /\ clients = << NewClient(URL_A, None, FALSE) >>
    /\ stateClient = 0
    /\ pupClient = 0
    /\ reqs = [t \in Slots |-> Idle]
    /\ now = 0
    /\ resp = NoResp
    /\ degraded = FALSE
    /\ renv = NoEnv
    /\ rarg = None
    /\ rres = NoClient
    /\ rpc = "off"
    /\ rfirst = NoClient
    /\ rcc = NoCreate
    /\ out = NoRequest
    /\ gs = NoCall

NextCache ==
    \/ Tick /\ UNCHANGED <<rvars, cvars>>
    \/ get_statusBegin
    \/ \E o \in UpstreamOutcomes, available \in BOOLEAN : get_statusEnd(o, available)
    \/ health_checkBegin
    \/ \E o \in UpstreamOutcomes, available \in BOOLEAN : health_checkEnd(o, available)
    \/ _requestBegin
    \/ \E o \in RequestOutcomes : _requestEnd(o)
    \/ \E co \in ConnectOutcomes : Connect(co)
    \/ Close

SpecCache == InitCache /\ [][NextCache]_vars

-----------------------------------------------------------------------------
(* Properties of the resolver, checked under SpecResolver *)

\* a remote-backend variable holds a non-empty value
RemoteSet(e) ==
    \/ (e.ALBERTO_API_URL # None /\ e.ALBERTO_API_URL[1] # <<>>)
    \/ (e.PUP_BACKEND_URL # None /\ e.PUP_BACKEND_URL[1] # <<>>)

\* a credential variable is set and holds a character that is not whitespace
Usable(k) == k # None /\ \E j \in 1..Len(k[1]) : k[1][j] \notin {" ", "\t"}

\* the URL the resolver uses when no remote-backend variable is set
DirectUrl(arg) == IF arg # None /\ arg[1] # <<>> THEN arg[1] ELSE URL_DEFAULT

\* the resolver's test for a loopback URL: one of the four prefixes
ClassifiedLoopback(url) == \E p \in _LOCAL_PREFIXES : startswith(url, p)

\* PUP_ALLOW_KEYLESS_BACKEND, trimmed and lower-cased, is one of 1/true/yes/on
FlagOn(e) ==
    /\ e.PUP_ALLOW_KEYLESS_BACKEND # None
    /\ lower(strip(e.PUP_ALLOW_KEYLESS_BACKEND[1])) \in _TRUE_VALUES

\* C4, as stated: whenever ALBERTO_API_URL or PUP_BACKEND_URL is set, to any value
\* (the empty string included), from_env returns demo_mode=False and api_key=None.
C4_SetToAnyValue ==
    (rpc = "done" /\ (renv.ALBERTO_API_URL # None \/ renv.PUP_BACKEND_URL # None))
        => (~rres.demo_mode /\ rres.api_key = None)

\* C4, amended: whenever ALBERTO_API_URL or PUP_BACKEND_URL is set to a non-empty
\* value, from_env returns demo_mode=False and api_key=None, whatever SYN_API_KEY,
\* OPEN_API_KEY and PUP_PROVIDER are.
C4_RemoteBackendLive ==
    (rpc = "done" /\ RemoteSet(renv)) => (~rres.demo_mode /\ rres.api_key = None)

\* C4 witness: the legacy variable alone is set and a usable credential is ignored
C4_Witness ==
    /\ rpc = "done"
    /\ ~Truthy(renv.ALBERTO_API_URL)
    /\ renv.PUP_BACKEND_URL = Some(URL_B)
    /\ Usable(renv.OPEN_API_KEY)
    /\ renv.PUP_PROVIDER = Some(<<"O","P","E","N","A","I">>)
    /\ rres.api_key = None
    /\ ~rres.demo_mode

\* the key C5 says is selected
C5_Expected(e) ==
    LET pref == IF e.PUP_PROVIDER = None THEN <<>> ELSE lower(e.PUP_PROVIDER[1])
    IN  IF pref = <<"s","y","n">> /\ Usable(e.SYN_API_KEY) THEN e.SYN_API_KEY
        ELSE IF pref = <<"o","p","e","n","a","i">> /\ Usable(e.OPEN_API_KEY)
        THEN e.OPEN_API_KEY
        ELSE IF Usable(e.OPEN_API_KEY) THEN e.OPEN_API_KEY
        ELSE e.SYN_API_KEY

\* C5: with no remote-backend variable set and a usable SYN_API_KEY or OPEN_API_KEY,
\* from_env returns demo_mode=False and api_key equal to the key selected by
\* PUP_PROVIDER and the default order (OPEN_API_KEY, then SYN_API_KEY); the key
\* selected is never unset, empty or whitespace-only.
C5_DirectKeySelected ==
    (rpc = "done" /\ ~RemoteSet(renv)
       /\ (Usable(renv.SYN_API_KEY) \/ Usable(renv.OPEN_API_KEY)))
        => /\ ~rres.demo_mode
           /\ rres.api_key = C5_Expected(renv)
           /\ Usable(rres.api_key)

\* C5 witness: both keys usable, PUP_PROVIDER=Syn selects SYN_API_KEY as it is set
C5_Witness ==
    /\ rpc = "done"
    /\ ~RemoteSet(renv)
    /\ Usable(renv.SYN_API_KEY)
    /\ Usable(renv.OPEN_API_KEY)
    /\ renv.PUP_PROVIDER = Some(<<"S","y","n">>)
    /\ rres.api_key = Some(S_SYNKEY)

\* the four conditions of C6
C6_DemoConditions(e, arg) ==
    /\ ~RemoteSet(e)
    /\ ~Usable(e.SYN_API_KEY)
    /\ ~Usable(e.OPEN_API_KEY)
    /\ ClassifiedLoopback(DirectUrl(arg))
    /\ ~FlagOn(e)

\* C6: from_env returns demo_mode=True exactly when no remote-backend variable is
\* set, no credential is usable, the backend URL is classified loopback and the
\* keyless flag is not truthy; then api_key is None; when only the loopback or the
\* flag condition fails the result is demo_mode=False with api_key=None.
C6_DemoExactly ==
    rpc = "done" =>
        /\ rres.demo_mode <=> C6_DemoConditions(renv, rarg)
        /\ rres.demo_mode => rres.api_key = None
        /\ (~RemoteSet(renv) /\ ~Usable(renv.SYN_API_KEY) /\ ~Usable(renv.OPEN_API_KEY)
              /\ ~rres.demo_mode) => rres.api_key = None

\* C6 witness: an explicit loopback URL, blank keys and a flag set to "no"
C6_Witness ==
    /\ rpc = "done"
    /\ rres.demo_mode
    /\ rarg = Some(URL_LOCAL_IP)
    /\ renv.SYN_API_KEY = Some(S_BLANK)
    /\ renv.PUP_ALLOW_KEYLESS_BACKEND = Some(<<"n","o">>)
    /\ renv.ALBERTO_API_URL = Some(S_EMPTY)

\* the first non-empty value among the two variables, the argument and the default
FirstNonEmpty(e, arg) ==
    IF e.ALBERTO_API_URL # None /\ e.ALBERTO_API_URL[1] # <<>> THEN e.ALBERTO_API_URL[1]
    ELSE IF e.PUP_BACKEND_URL # None /\ e.PUP_BACKEND_URL[1] # <<>>
    THEN e.PUP_BACKEND_URL[1]
    ELSE IF arg # None /\ arg[1] # <<>> THEN arg[1]
    ELSE URL_DEFAULT

\* b is u with its trailing "/" characters removed
TrailingSlashesRemoved(u, b) ==
    /\ Len(b) <= Len(u)
    /\ SubSeq(u, 1, Len(b)) = b
    /\ \A j \in (Len(b) + 1)..Len(u) : u[j] = "/"
    /\ b = <<>> \/ b[Len(b)] # "/"

\* C15: the base_url of the client from_env returns is the first non-empty value
\* among ALBERTO_API_URL, PUP_BACKEND_URL, the base_url argument and
\* "http://localhost:8080" with its trailing "/" characters removed, so it never
\* ends in "/".
C15_BaseUrlPrecedence ==
    rpc = "done" => TrailingSlashesRemoved(FirstNonEmpty(renv, rarg), rres.base_url)

\* C15 witness: ALBERTO_API_URL ends in two slashes, the legacy variable and the
\* argument hold other URLs, and the client has the first without its slashes
C15_Witness ==
    /\ rpc = "done"
    /\ renv.ALBERTO_API_URL = Some(URL_A \o <<"/">>)
    /\ renv.PUP_BACKEND_URL = Some(URL_B)
    /\ rarg = Some(URL_LOCAL_IP)
    /\ rres.base_url = SubSeq(URL_A, 1, Len(URL_A) - 1)

\* the three modes of a resolved client
ModeLiveBackend(c) == ~c.demo_mode /\ c.api_key = None
ModeLiveDirect(c) == ~c.demo_mode /\ c.api_key # None /\ c.api_key[1] # <<>>
ModeDemo(c) == c.demo_mode /\ c.api_key = None

\* C16: for every environment and base_url argument from_env returns a client
\* that is in exactly one of the three modes (live backend, live direct, demo),
\* has no session and is not connected.
C16_OneModeNoSession ==
    rpc = "done" =>
        /\ \E m \in {"backend", "direct", "demo"} :
              /\ (m = "backend") <=> ModeLiveBackend(rres)
              /\ (m = "direct") <=> ModeLiveDirect(rres)
              /\ (m = "demo") <=> ModeDemo(rres)
        /\ ~rres.session
        /\ ~rres.is_connected
        /\ rres.status_cache = None

\* C16 witness: a live direct client, returned with no session, for a blank
\* SYN_API_KEY, a usable OPEN_API_KEY and an empty base_url argument
C16_Witness ==
    /\ rpc = "done"
    /\ ModeLiveDirect(rres)
    /\ renv.SYN_API_KEY = Some(S_BLANK)
    /\ rarg = Some(S_EMPTY)
    /\ ~rres.session
    /\ ~rres.is_connected

\* the Authorization values of a request
AuthValues(rq) == { h[2] : h \in { g \in rq.headers : g[1] = "Authorization" } }

\* C17: a request sent by a resolved client carries "Authorization: Bearer <key>"
\* exactly when the client's api_key is non-empty; a client resolved with a
\* remote-backend variable set sends no Authorization header, and its request is
\* the one the same environment without SYN_API_KEY, OPEN_API_KEY and
\* PUP_PROVIDER gives.
C17_BearerIffKey ==
    rpc = "called" =>
        /\ IF rres.api_key # None /\ rres.api_key[1] # <<>>
           THEN AuthValues(out) = { <<"Bearer ">> \o rres.api_key[1] }
           ELSE AuthValues(out) = {}
        /\ RemoteSet(renv) =>
              /\ AuthValues(out) = {}
              /\ out.headers = { <<"Content-Type", <<"application/json">> >> }
              /\ TrailingSlashesRemoved(FirstNonEmpty(renv, rarg), out.url)

\* C17 witness: a remote URL and two usable keys, and a request with no
\* Authorization header
C17_Witness ==
    /\ rpc = "called"
    /\ renv.ALBERTO_API_URL = Some(URL_A)
    /\ Usable(renv.SYN_API_KEY)
    /\ Usable(renv.OPEN_API_KEY)
    /\ AuthValues(out) = {}
    /\ out.url = rres.base_url
    /\ rres.session

\* the least element of a non-empty set of numbers
Least(S) == CHOOSE i \in S : \A j \in S : i <= j

\* the part of a URL after "scheme://"
AfterScheme(u) ==
    LET at == { i \in 1..(Len(u) - 2) : u[i] = ":" /\ u[i+1] = "/" /\ u[i+2] = "/" }
    IN  IF at = {} THEN u ELSE SubSeq(u, Least(at) + 3, Len(u))

\* the host of a URL: what follows the scheme, up to the port, path or query
HostOf(u) ==
    LET r == AfterScheme(u)
        stops == { i \in 1..Len(r) : r[i] \in {"/", ":", "?", "#"} }
    IN  IF stops = {} THEN r ELSE SubSeq(r, 1, Least(stops) - 1)

\* the host is localhost or 127.0.0.1
LoopbackHost(u) ==
    HostOf(u) \in { <<"l","o","c","a","l","h","o","s","t">>,
                    <<"1","2","7",".","0",".","0",".","1">> }

\* C18: the resolver classifies the backend URL as loopback exactly when its host
\* is localhost or 127.0.0.1: with no remote-backend variable, no usable key and
\* no keyless flag, the client is a demo client exactly for such a URL.
C18_LoopbackByHost ==
    (rpc = "done" /\ ~RemoteSet(renv) /\ ~Usable(renv.SYN_API_KEY)
       /\ ~Usable(renv.OPEN_API_KEY) /\ ~FlagOn(renv)) =>
        (rres.demo_mode <=> LoopbackHost(DirectUrl(rarg)))

\* C6, with the loopback condition read off the URL's host: from_env returns
\* demo_mode=True exactly when no remote-backend variable is set, no credential
\* is usable, the host of the backend URL is localhost or 127.0.0.1 and the
\* keyless flag is not truthy.
C6_DemoExactlyByHost ==
    rpc = "done" =>
        (rres.demo_mode <=>
            ( /\ ~RemoteSet(renv)
              /\ ~Usable(renv.SYN_API_KEY)
              /\ ~Usable(renv.OPEN_API_KEY)
              /\ LoopbackHost(DirectUrl(rarg))
              /\ ~FlagOn(renv) ))

\* (base_url, api_key, demo_mode) of a client
Resolved(c) == <<c.base_url, c.api_key, c.demo_mode>>

C26_SameResolution ==
    (rpc = "created" /\ ~RemoteSet(renv) /\ rcc.arg = None /\ rcc.raised = "none") =>
        /\ rcc.client.base_url = rres.base_url
        /\ rcc.client.api_key = rres.api_key

\* the part of C26 that holds: the two agree on base_url, and on the key when
\* only one of the two keys is usable
C26_SameUrlAndLoneKey ==
    (rpc = "created" /\ ~RemoteSet(renv) /\ rcc.arg = None /\ rcc.raised = "none") =>
        /\ rcc.client.base_url = rres.base_url
        /\ ~(Usable(renv.SYN_API_KEY) /\ Usable(renv.OPEN_API_KEY)) =>
              rcc.client.api_key = rres.api_key

-----------------------------------------------------------------------------
(* Properties of the gateway, checked under Spec *)

\* the response just returned ends a request that failed to reach the backend
FailureResponse ==
    /\ resp.kind \in {"chat", "status", "startup"}
    /\ resp.path \in {"connect_failed", "call_failed"}

\* C1: POST /api/chat never raises, and whenever it does not return the backend's
\* own answer (no client, demo client, session open failed, upstream call failed
\* in any way) it returns success=true, execution_time=0.1 and one of the four
\* demo replies.
C1_ChatAlwaysAnswers ==
    resp.kind = "chat" =>
        /\ resp.path \in {"noclient", "demo", "connect_failed", "call_failed", "ok"}
        /\ resp.path # "ok" =>
              /\ resp.success
              /\ resp.execution_time = ExecTimeMs
              /\ resp.response \in 1..NumDemoResponses

\* C1 witness: a live client with an open session, the upstream call failed,
\* the last of the demo replies was returned
C1_Witness ==
    /\ resp.kind = "chat"
    /\ resp.path = "call_failed"
    /\ resp.upstream
    /\ resp.sessionAfter
    /\ resp.success
    /\ resp.response = NumDemoResponses

\* C2, as stated: while ALBERTO_API_URL or PUP_BACKEND_URL has a value no failure
\* of a session open, a chat call or a status call leaves demo_mode true, and with
\* neither set a failure sets demo_mode to true.
C2_RemoteUrlNeverDemo ==
    (FailureResponse /\ resp.envStable) =>
        IF Truthy(resp.envRemote) THEN ~resp.demoAfter ELSE resp.demoAfter

\* C2, amended: when the configuration was forced-live as the request began (a
\* remote-backend variable non-empty, and not a loopback URL unless the keyless
\* flag is truthy) a failure of a session open, a chat call or a status call
\* leaves demo_mode as it was; otherwise the failure sets demo_mode to true.
C2_ForcedLiveNeverDemo ==
    FailureResponse =>
        IF resp.envForced
        THEN resp.demoAfter = resp.demoBefore
        ELSE resp.demoAfter

\* C2 witness: a loopback remote URL made forced-live by the keyless flag, a
\* status call failed and the client is still live
C2_Witness ==
    /\ resp.kind = "status"
    /\ resp.path = "call_failed"
    /\ resp.envForced
    /\ resp.envRemote = Some(URL_LOCAL_IP)
    /\ ~resp.demoBefore
    /\ ~resp.demoAfter

\* C3: a chat or status request that finds the client in demo mode (demo_mode
\* true, configuration not forced-live) is answered locally: no upstream call is
\* issued, none is left in flight, and no session is opened.
C3_DemoStaysLocal ==
    /\ (resp.kind \in {"chat", "status"} /\ resp.startDemo) =>
          (resp.path = "demo" /\ ~resp.upstream /\ ~resp.opened)
    /\ \A s \in Slots : reqs[s].kind \in {"chat", "status"} => ~reqs[s].startDemo

\* C3 witness: a status request answered locally by a client that was degraded to
\* demo mode while it holds an open session
C3_Witness ==
    /\ resp.kind = "status"
    /\ resp.startDemo
    /\ resp.path = "demo"
    /\ resp.sessionAfter
    /\ ~resp.upstream

\* C7: in a forced-live configuration no chat request is answered from demo mode:
\* each one issues the upstream chat call, or fails opening the session it needs
\* for the call, whatever failed before.
C7_ForcedLiveRetries ==
    /\ (resp.kind = "chat" /\ resp.envForced) =>
          /\ resp.path \in {"ok", "call_failed", "connect_failed"}
          /\ resp.path # "connect_failed" => resp.upstream
          /\ resp.path = "connect_failed" => ~resp.sessionAfter
    /\ \A s \in Slots : (reqs[s].kind = "chat" /\ reqs[s].envForced) =>
          clients[reqs[s].client].session

\* C7 witness: a forced-live chat request has its upstream call in flight on a
\* client that an earlier failed call left marked disconnected
C7_Witness ==
    \E s \in Slots :
        /\ reqs[s].kind = "chat"
        /\ reqs[s].envForced
        /\ clients[reqs[s].client].session
        /\ ~clients[reqs[s].client].is_connected
        /\ ~clients[reqs[s].client].demo_mode

\* C8: in a configuration that is not forced-live a chat request whose upstream
\* call fails returns a demo reply with success=true, and every status request
\* taken afterwards reports demo_mode=true and connected=false.
C8_DegradedStaysDemo ==
    /\ (resp.kind = "chat" /\ resp.path = "call_failed" /\ ~resp.envForced) =>
          (resp.success /\ resp.response \in 1..NumDemoResponses /\ resp.demoAfter)
    /\ (resp.kind = "status" /\ resp.afterDegraded) =>
          (resp.demo_mode /\ ~resp.connected)

\* C8 witness: a status request after such a failure, answered by the client that
\* still holds the session the failed call used
C8_Witness ==
    /\ resp.kind = "status"
    /\ resp.afterDegraded
    /\ resp.demo_mode
    /\ ~resp.connected
    /\ resp.sessionAfter
    /\ resp.available

\* C9: a status response built from a successful backend status result reports
\* connected=true exactly when the client's session is open and the client is not
\* in demo mode.
C9_ConnectedIffSessionOpen ==
    (resp.kind = "status" /\ resp.path = "ok") =>
        (resp.connected <=> (resp.sessionAfter /\ ~resp.demoAfter))

\* C10, as stated: after a chat, status or home request handled while a
\* remote-backend variable holds U, app.state.client has base_url U without its
\* trailing slash and demo_mode false.
C10_RemoteUrlClient ==
    (resp.kind \in {"chat", "status", "home"} /\ Truthy(resp.envRemote)
       /\ resp.envStable /\ resp.alone) =>
        /\ stateClient # 0
        /\ clients[stateClient].base_url = rstripSlash(resp.envRemote[1])
        /\ ~clients[stateClient].demo_mode

\* C10, amended: after a chat, status or home request handled in a forced-live
\* configuration whose remote-backend variable holds U (the environment not
\* changing during the request, no other request in progress), app.state.client
\* has base_url U without its trailing slash and demo_mode false, whatever client
\* was held before.
C10_ForcedLiveClient ==
    (resp.kind \in {"chat", "status", "home"} /\ resp.envForced
       /\ resp.envStable /\ resp.alone) =>
        /\ stateClient # 0
        /\ clients[stateClient].base_url = rstripSlash(resp.envRemote[1])
        /\ ~clients[stateClient].demo_mode

\* C10 witness: the client held before was replaced, the request failed upstream,
\* and the client held now has the URL of ALBERTO_API_URL less its slash
C10_Witness ==
    /\ resp.kind = "chat"
    /\ resp.path = "call_failed"
    /\ resp.envForced
    /\ resp.envStable
    /\ resp.envRemote = Some(URL_A)
    /\ stateClient = MaxClients
    /\ clients[stateClient].base_url = SubSeq(URL_A, 1, Len(URL_A) - 1)
    /\ ~clients[stateClient].demo_mode

\* C11, as stated: whenever a session open or the upstream status call fails in
\* GET /api/status the response has available=false, connected=false,
\* demo_mode = (not forced-live) and error exactly "connection_failed", the same
\* for every underlying exception.
C11_ErrorIsConstant ==
    (resp.kind = "status" /\ resp.path \in {"connect_failed", "call_failed"}) =>
        /\ ~resp.available
        /\ ~resp.connected
        /\ resp.demo_mode = ~resp.envForced
        /\ resp.error = <<"connection_failed">>

\* C11, amended: such a response has available=false, connected=false and
\* demo_mode = (not forced-live); its error is exactly "connection_failed" when
\* the configuration is not forced-live, and "connection_failed: " followed by
\* the text of the exception when it is forced-live.
C11_ErrorByMode ==
    (resp.kind = "status" /\ resp.path \in {"connect_failed", "call_failed"}) =>
        /\ ~resp.available
        /\ ~resp.connected
        /\ resp.demo_mode = ~resp.envForced
        /\ resp.error = IF resp.envForced
                        THEN <<"connection_failed: ", resp.exc>>
                        ELSE <<"connection_failed">>

\* C11 witness: not forced-live, the upstream status call timed out and the
\* response carries the constant alone
C11_Witness ==
    /\ resp.kind = "status"
    /\ resp.path = "call_failed"
    /\ resp.exc = "PupTimeoutError"
    /\ ~resp.envForced
    /\ resp.demo_mode
    /\ resp.error = <<"connection_failed">>

\* C13: while the configuration is not forced-live, no step of the gateway (a
\* request to /api/chat, /api/status, / or /health, a change of the environment
\* to another configuration that is not forced-live, shutdown) takes the client
\* held in app.state.client out of demo mode or replaces it.
C13_DemoAbsorbing ==
    [][ ( /\ stateClient # 0
          /\ clients[stateClient].demo_mode
          /\ ~EnvForced(env)
          /\ ~EnvForced(env') )
        => ( /\ stateClient' = stateClient
             /\ clients'[stateClient'].demo_mode ) ]_vars

\* C13 witness: GET /health got a good answer from the upstream through a client
\* in demo mode, and the client is in demo mode still
C13_Witness ==
    /\ resp.kind = "health"
    /\ resp.path = "ok"
    /\ resp.upstream
    /\ resp.status = "healthy"
    /\ ~resp.envForced
    /\ resp.demoBefore
    /\ resp.demoAfter
    /\ stateClient = resp.client

\* C14: once the lifespan has exited, no session opened by a client the gateway
\* used is open, the sessions of clients replaced by a re-resolution included.
C14_NoSessionLeftOpen ==
    phase = "stopped" => \A k \in 1..Len(clients) : ~clients[k].session

\* C19: whenever GET /api/status finds no client at all the response has
\* available=false, connected=false and demo_mode=true, in every environment,
\* those with a remote backend configured included.
C19_NoClientIsDemo ==
    (resp.kind = "status" /\ resp.path = "noclient") =>
        /\ ~resp.available
        /\ ~resp.connected
        /\ resp.demo_mode
        /\ stateClient = 0

\* C19 witness: no client although a remote-backend variable holds a URL
C19_Witness ==
    /\ resp.kind = "status"
    /\ resp.path = "noclient"
    /\ resp.envRemote # None
    /\ resp.envRemote[1] # <<>>
    /\ resp.demo_mode
    /\ ~resp.available

\* C20: GET /health returns a status among healthy, unhealthy, error and
\* demo_mode; it is demo_mode exactly when the gateway serves in demo mode (it
\* has no client, or its client is in demo mode in a configuration that is not
\* forced-live), and healthy exactly when a live client's status call succeeded
\* with available=true.
C20_HealthByMode ==
    resp.kind = "health" =>
        LET servingDemo == resp.client = 0 \/ (resp.demoBefore /\ ~resp.envForced)
        IN  /\ resp.status \in {"healthy", "unhealthy", "error", "demo_mode"}
            /\ resp.status = "demo_mode" <=> servingDemo
            /\ resp.status = "healthy" <=>
                  (~servingDemo /\ resp.path = "ok" /\ resp.available)

\* C22: in a forced-live configuration a chat or status request whose session
\* open and upstream call both succeed leaves the client connected
\* (is_connected true), also when an earlier failure had marked it disconnected.
C22_RecoversConnected ==
    (resp.kind \in {"chat", "status"} /\ resp.path = "ok" /\ resp.upstream
       /\ resp.envForced /\ resp.envStable) =>
        /\ resp.sessionAfter
        /\ resp.connAfter
        /\ resp.kind = "status" => resp.connected

\* _ensure_live_client would return the client held: the configuration is not
\* forced-live, or needs_refresh is false
Settled ==
    /\ stateClient # 0
    /\ _force_live_backend(env) => ~needs_refresh(clients, stateClient, env)

\* C27: with the environment held fixed, _ensure_live_client replaces the
\* gateway's client at most once: once a request has been handled in a
\* forced-live configuration needs_refresh is false, also for a URL configured
\* with a trailing slash, and from then on every step keeps app.state.client the
\* same object and needs_refresh false; in a configuration that is not
\* forced-live the client is never replaced; and from startup on
\* app.state.client and _pup_client are the same client.
C27_RefreshAtMostOnce ==
    [][ /\ phase' \in {"running", "stopped"} => stateClient' = pupClient'
        /\ (resp'.kind \in {"chat", "status", "home", "startup"} /\ resp'.envForced
              /\ resp'.envStable /\ resp'.alone) =>
                 (stateClient' # 0 /\ ~needs_refresh(clients', stateClient', env'))
        /\ (env' = env /\ Settled /\ \A s \in Slots : reqs[s].envStable) =>
                 (stateClient' = stateClient /\ Settled') ]_vars

\* C27 witness: the URL is configured with a trailing slash, the client made at
\* startup was replaced once, and a later chat was answered by the backend on a
\* session the replacement had opened for an earlier request
C27_Witness ==
    /\ resp.kind = "chat"
    /\ resp.path = "ok"
    /\ resp.envRemote = Some(URL_A)
    /\ Len(clients) = 2
    /\ resp.client = 2
    /\ stateClient = 2
    /\ pupClient = 2
    /\ ~resp.opened
    /\ resp.sessionAfter
    /\ clients[2].status_cache # None

\* C25: while the gateway's client is in demo mode (demo_mode true, the
\* configuration not forced-live) no endpoint issues an upstream call: not
\* /api/chat and /api/status, and not /health, /api/capabilities and /api/agents
\* either, also when the client holds an open session.
C25_DemoNoUpstream ==
    /\ (resp.kind \in {"chat", "status"} /\ resp.startDemo) => ~resp.upstream
    /\ (resp.kind \in {"health", "capabilities", "agents"}
          /\ resp.demoBefore /\ ~resp.envForced /\ resp.envStable) => ~resp.upstream
    /\ \A s \in Slots :
          (Busy(s) /\ ~EnvForced(env) /\ reqs[s].envStable) =>
              ~clients[reqs[s].client].demo_mode

-----------------------------------------------------------------------------
(* Properties of the gateway serving concurrently, checked under SpecConcurrent *)

\* C23: under every interleaving of concurrent /api/chat and /api/status
\* requests, a client never holds more than one open session (a connect() on a
\* client that has a session creates none), and _is_connected = true implies
\* that the session is not None.
C23_OneSession ==
    \A k \in 1..Len(clients) :
        /\ clients[k].nsessions <= 1
        /\ clients[k].session <=> clients[k].nsessions = 1
        /\ clients[k].is_connected => clients[k].session

\* C23 witness: a chat and a status handler are suspended on the same client,
\* which a failed call marked disconnected; the connect() of the handler that
\* started after the failure created no second session
C23_Witness ==
    /\ reqs[1].kind = "chat"
    /\ reqs[2].kind = "status"
    /\ reqs[1].client = reqs[2].client
    /\ clients[reqs[1].client].session
    /\ clients[reqs[1].client].nsessions = 1
    /\ ~clients[reqs[1].client].is_connected

\* C24: under every interleaving of concurrent requests, a /api/status response
\* built from the backend's status reports demo_mode=false, and no /api/status
\* response reports connected=true together with demo_mode=true.
C24_LiveStatusNotDemo ==
    resp.kind = "status" =>
        /\ resp.path = "ok" => ~resp.demo_mode
        /\ ~(resp.connected /\ resp.demo_mode)

\* the second half of C24 alone
C24_NeverConnectedAndDemo ==
    resp.kind = "status" => ~(resp.connected /\ resp.demo_mode)

-----------------------------------------------------------------------------
(* Properties of the client, checked under SpecCache *)

\* a _request call that issued its request has ended
RequestDone == gs.op = "_request" /\ gs.pc = "idle" /\ gs.sent

\* C28: _request maps every upstream outcome to exactly one result, earlier
\* rules first: status 401 raises PupConnectionError; 408 raises PupTimeoutError;
\* status >= 500 raises PupConnectionError; otherwise a body that is not JSON
\* raises PupError; otherwise status >= 400 raises PupError carrying the
\* payload's "error" field; otherwise the parsed JSON is returned.  A
\* client-side timeout raises PupTimeoutError and a transport error raises
\* PupConnectionError.
C28_RequestTaxonomy ==
    RequestDone =>
        LET o == gs.o
        IN  IF o.t = "timeout" THEN gs.ev = "raised" /\ gs.exc = "PupTimeoutError"
            ELSE IF o.t = "client_error"
            THEN gs.ev = "raised" /\ gs.exc = "PupConnectionError"
            ELSE IF o.status = 401 THEN gs.ev = "raised" /\ gs.exc = "PupConnectionError"
            ELSE IF o.status = 408 THEN gs.ev = "raised" /\ gs.exc = "PupTimeoutError"
            ELSE IF o.status >= 500
            THEN gs.ev = "raised" /\ gs.exc = "PupConnectionError"
            ELSE IF o.body = "not_json" THEN gs.ev = "raised" /\ gs.exc = "PupError"
            ELSE IF o.status >= 400
            THEN /\ gs.ev = "raised"
                 /\ gs.exc = "PupError"
                 /\ o.body = "error_object" => gs.msg = "payload.error"
            ELSE gs.ev = "returned" /\ gs.exc = "none"

\* C28 for every answer but a status in 400..499 (401 and 408 apart) with a JSON
\* body that is not an object
C28_TaxonomyOfObjects ==
    (RequestDone /\ ~(gs.o.body = "json_other" /\ gs.o.status \in {400, 404})) =>
        C28_RequestTaxonomy

\* a call that needs an upstream request was made on a client with no session:
\* _request, or a get_status / health_check that the cache cannot answer
NeededRequestNoSession(ops) ==
    /\ gs.op \in ops
    /\ gs.pc = "idle"
    /\ ~gs.before.session
    /\ gs.op \in {"get_status", "health_check"} => ~CacheFresh(gs.before, gs.t0)

\* C29, as stated: any operation that needs an upstream request on a client that
\* holds no session raises PupConnectionError without sending a request and
\* leaves the client unchanged; after close() the session is None and
\* is_connected is false, and a later connect() opens a new session.
C29_NoSessionAlwaysRaises ==
    /\ NeededRequestNoSession({"_request", "get_status", "health_check"}) =>
          /\ gs.ev = "raised"
          /\ gs.exc = "PupConnectionError"
          /\ ~gs.sent
          /\ clients[1] = gs.before
    /\ (gs.op = "close" /\ gs.pc = "idle") =>
          (~clients[1].session /\ ~clients[1].is_connected /\ clients[1].nsessions = 0)
    /\ (gs.op = "connect" /\ gs.ev = "returned" /\ ~gs.before.session) =>
          (clients[1].session /\ clients[1].is_connected /\ clients[1].nsessions = 1)

\* C29, amended: _request and get_status do so; health_check sends nothing and
\* leaves the client unchanged too, but catches the exception and returns False.
C29_NoSessionNoRequest ==
    /\ NeededRequestNoSession({"_request", "get_status"}) =>
          /\ gs.ev = "raised"
          /\ gs.exc = "PupConnectionError"
          /\ ~gs.sent
          /\ clients[1] = gs.before
    /\ NeededRequestNoSession({"health_check"}) =>
          /\ gs.ev = "returned"
          /\ gs.result = Some(FALSE)
          /\ ~gs.sent
          /\ clients[1] = gs.before
    /\ (gs.op = "close" /\ gs.pc = "idle") =>
          (~clients[1].session /\ ~clients[1].is_connected /\ clients[1].nsessions = 0)
    /\ (gs.op = "connect" /\ gs.ev = "returned" /\ ~gs.before.session) =>
          (clients[1].session /\ clients[1].is_connected /\ clients[1].nsessions = 1)

\* C29 witness: get_status raised on a client that was closed after it had
\* cached a status, the cache being too old to answer
C29_Witness ==
    /\ gs.op = "get_status"
    /\ gs.ev = "raised"
    /\ gs.exc = "PupConnectionError"
    /\ ~gs.sent
    /\ ~clients[1].session
    /\ ~clients[1].is_connected
    /\ clients[1].status_cache # None
    /\ clients[1] = gs.before

\* C30: connect() on a client that already holds a session returns without
\* creating a session and changes no field of the client, so after any number of
\* connect() calls the client holds exactly one open session.
C30_ConnectIdempotent ==
    /\ (gs.op = "connect" /\ gs.before.session) =>
          /\ gs.ev = "returned"
          /\ clients[1] = gs.before
    /\ (gs.op = "connect" /\ gs.ev = "returned") =>
          (clients[1].session /\ clients[1].nsessions = 1)
    /\ clients[1].nsessions <= 1

\* C30 witness: connect() returned on a client that already had a session and a
\* cached status, and the client is what it was
C30_Witness ==
    /\ gs.op = "connect"
    /\ gs.ev = "returned"
    /\ gs.before.session
    /\ gs.before.status_cache # None
    /\ clients[1] = gs.before
    /\ clients[1].nsessions = 1

-----------------------------------------------------------------------------
(* Properties of get_status, checked under SpecCache *)

\* a get_status call has just decided between its cache and the upstream
Decided == gs.op = "get_status" /\ gs.ev \in {"hit", "sent"}

\* C12, as stated: a get_status call made less than 30 seconds after the start of
\* the most recent successful get_status on the client (one answered from the
\* cache included) returns the cached status and issues no upstream request; one
\* made 30 seconds or more after it issues a new upstream request.
C12_WindowFromLastSuccess ==
    (Decided /\ gs.prevOk # None) =>
        IF gs.t0 - gs.prevOk[1] < CacheTTL
        THEN gs.ev = "hit" /\ gs.result = gs.fetched
        ELSE gs.ev = "sent"

\* C12, amended: a get_status call made less than 30 seconds after the start of
\* the most recent get_status that fetched a status from the upstream returns
\* that status and issues no upstream request; a call made 30 seconds or more
\* after it, or before any such call, issues a new upstream request (the client
\* holding a session).  Calls
\* answered from the cache do not extend the 30 seconds.
C12_WindowFromLastFetch ==
    Decided =>
        IF gs.prevFetch # None /\ gs.t0 - gs.prevFetch[1] < CacheTTL
        THEN gs.ev = "hit" /\ gs.result = gs.fetched /\ gs.result # None
        ELSE gs.ev = "sent"

\* C12 witness: a call answered from the cache 20 seconds after the start of the
\* one fetch made so far
C12_Witness ==
    /\ gs.ev = "hit"
    /\ gs.prevFetch = Some(0)
    /\ gs.t0 = 2 * TickStep
    /\ clients[1].cache_timestamp = Some(0)
    /\ gs.result = Some(TRUE)

====
